---- MODULE Spec2Model ----
(***************************************************************************)
(* Model of Tools/convert_3mf_to_usdz.py: the mesh conversion pipeline     *)
(* (load, simplify with fallback, normalize, serialize, package).          *)
(*                                                                         *)
(* Coordinates are exact rationals: a mesh carries integer numerators in   *)
(* `vertices` and one common positive denominator `den`.  Face indices are *)
(* 0-based as in the program; sequences are 1-based, so vertex index i is  *)
(* stored at vertices[i + 1].                                              *)
(***************************************************************************)
EXTENDS Integers, Sequences, FiniteSets

\* ---- bounds of the model ------------------------------------------------
MaxFaces == 4
MaxTargetFaces == 3
MaxTargetSize == 2
MaxSpread == 1
MaxShift == 1
MaxGeoms == 2
MaxSubFaces == 1

\* ---- program constants --------------------------------------------------
PointPrecision == 4
FaceVertexCount == 3

ENTRY_NAME == "default.usda"
DefaultColor == "0.6, 0.6, 0.6"

VARIABLES pc, args, input_exists, initial_output, output, loaded, mesh,
          path, primary_calls, failure, lists, usda_content, archive,
          exit_status, abort_reason

vars == <<pc, args, input_exists, initial_output, output, loaded, mesh,
          path, primary_calls, failure, lists, usda_content, archive,
          exit_status, abort_reason>>

\* ---- arithmetic helpers -------------------------------------------------
Max2(a, b) == IF a >= b THEN a ELSE b

SetMax(S) == CHOOSE x \in S : \A y \in S : y <= x

SetMin(S) == CHOOSE x \in S : \A y \in S : x <= y

RECURSIVE Pow10(_)
Pow10(n) == IF n = 0 THEN 1 ELSE 10 * Pow10(n - 1)

\* numpy.arange(start, stop, step) for step >= 1
arange(start, stop, step) ==
    LET n == IF stop <= start THEN 0 ELSE (stop - start + step - 1) \div step
    IN  [k \in 1..n |-> start + (k - 1) * step]

\* ---- meshes -------------------------------------------------------------
EmptyMesh == [vertices |-> <<>>, den |-> 1, faces |-> <<>>]

Vertex(i, spread) == <<i * spread, (i % 2) * spread, (i % 3) * spread>>

StripMesh(F, spread) ==
    [vertices |-> [i \in 1..(IF F = 0 THEN 0 ELSE F + 2) |-> Vertex(i - 1, spread)],
     den      |-> 1,
     faces    |-> [k \in 1..F |-> <<k - 1, k, k + 1>>]]

\* the same strip with its faces listed from the far end and wound backwards
RevStripMesh(F, spread) ==
    [vertices |-> [i \in 1..(IF F = 0 THEN 0 ELSE F + 2) |-> Vertex(i - 1, spread)],
     den      |-> 1,
     faces    |-> [k \in 1..F |-> <<F + 2 - k, F + 1 - k, F - k>>]]

InputMeshes ==
    {StripMesh(F, s) : F \in 0..MaxFaces, s \in 0..MaxSpread}
        \cup {RevStripMesh(F, s) : F \in 0..MaxFaces, s \in 0..MaxSpread}

\* the geometries a loaded Scene can hold (sub-meshes of one model, some of
\* them possibly without any face)
SubMeshes(s) == {StripMesh(F, s) : F \in 0..MaxSubFaces}

\* what trimesh.load can return: one Trimesh, or a Scene of named geometries
LoadResults ==
    {[kind |-> "Trimesh", geometry |-> <<m>>] : m \in InputMeshes}
        \cup {[kind |-> "Scene", geometry |-> g] :
                 g \in UNION {[1..n -> SubMeshes(s)] :
                                 n \in 0..MaxGeoms, s \in 0..MaxSpread}}

\* Trimesh.is_empty / Scene.is_empty
is_empty(obj) ==
    IF obj.kind = "Scene"
    THEN Len(obj.geometry) = 0
    ELSE Len(obj.geometry[1].vertices) = 0 \/ Len(obj.geometry[1].faces) = 0

\* trimesh.util.concatenate(scene.dump()): vertex lists appended, the faces of
\* each geometry offset by the number of vertices that precede it
RECURSIVE concatenate(_)
concatenate(geoms) ==
    IF Len(geoms) = 0 THEN EmptyMesh
    ELSE LET head == concatenate(SubSeq(geoms, 1, Len(geoms) - 1))
             last == geoms[Len(geoms)]
             off  == Len(head.vertices)
         IN  [vertices |-> head.vertices \o last.vertices,
              den      |-> 1,
              faces    |-> head.faces \o
                           [k \in 1..Len(last.faces) |->
                               <<last.faces[k][1] + off, last.faces[k][2] + off,
                                 last.faces[k][3] + off>>]]

\* the mesh bound to `mesh` after lines 54-59
Flattened(obj) ==
    IF obj.kind = "Scene" THEN concatenate(obj.geometry) ELSE obj.geometry[1]

Referenced(faces) == {faces[k][j] : k \in 1..Len(faces), j \in 1..3}

\* Trimesh.submesh([face_indices], append=True): the selected faces in the
\* given order, the referenced vertices in ascending index order, the faces
\* re-indexed into the kept vertices
submesh(m, face_indices) ==
    LET faces_current == [k \in 1..Len(face_indices) |-> m.faces[face_indices[k] + 1]]
        unique        == Referenced(faces_current)
        mask(v)       == Cardinality({u \in unique : u < v})
        kept(r)       == CHOOSE u \in unique : mask(u) = r - 1
    IN  [vertices |-> [r \in 1..Cardinality(unique) |-> m.vertices[kept(r) + 1]],
         den      |-> m.den,
         faces    |-> [k \in 1..Len(faces_current) |->
                          <<mask(faces_current[k][1]), mask(faces_current[k][2]),
                            mask(faces_current[k][3])>>]]

\* Trimesh.remove_unreferenced_vertices()
remove_unreferenced_vertices(m) ==
    LET unique  == Referenced(m.faces)
        mask(v) == Cardinality({u \in unique : u < v})
        kept(r) == CHOOSE u \in unique : mask(u) = r - 1
    IN  [vertices |-> [r \in 1..Cardinality(unique) |-> m.vertices[kept(r) + 1]],
         den      |-> m.den,
         faces    |-> [k \in 1..Len(m.faces) |->
                          <<mask(m.faces[k][1]), mask(m.faces[k][2]),
                            mask(m.faces[k][3])>>]]

\* ---- Simplifier (lines 61-71) -------------------------------------------
\* mutant: the guard written with >= instead of >
NeedsSimplifyGE(T, F) == T # 0 /\ F >= T

\* line 61: if args.target_faces and len(mesh.faces) > args.target_faces
NeedsSimplify(T, F) == T # 0 /\ F > T

\* the failures the primary call can raise; all derive from BaseException
FailureKinds == {"Exception", "MemoryError", "KeyboardInterrupt", "SystemExit"}

\* mutant: except Exception, which lets KeyboardInterrupt and SystemExit through
CaughtExceptionOnly(exc) == exc \in {"Exception", "MemoryError"}

\* line 64: except BaseException
Caught(exc) == exc \in FailureKinds

\* the decimation library's result on success: a re-indexed mesh of about T
\* of the faces (it may land one above or below the request)
PrimaryOutcomes(m, T) ==
    {submesh(m, arange(0, k, 1)) :
        k \in {j \in {T - 1, T, T + 1} : 1 <= j /\ j <= Len(m.faces)}}

\* mutant: the stride rounded up instead of down
FallbackStepCeil(F, T) == Max2(1, (F + T - 1) \div T)

\* line 66
FallbackStep(F, T) == Max2(1, F \div T)

\* lines 67-68
FallbackSample(m, T) ==
    submesh(m, arange(0, Len(m.faces), FallbackStep(Len(m.faces), T)))

\* mutant: the truncation to T faces left out
FallbackTruncateOff(m, T) == m

\* lines 69-70
FallbackTruncate(m, T) ==
    IF Len(m.faces) > T THEN submesh(m, arange(0, T, 1)) ELSE m

\* mutant: the vertices compacted but the faces sliced out of the original
\* face array, keeping their old vertex indices
FallbackNoReindex(m, T) ==
    LET idx == arange(0, Len(m.faces), FallbackStep(Len(m.faces), T))
        sel == IF Len(idx) > T THEN SubSeq(idx, 1, T) ELSE idx
        r   == remove_unreferenced_vertices(FallbackTruncate(FallbackSample(m, T), T))
    IN  [r EXCEPT !.faces = [k \in 1..Len(sel) |-> m.faces[sel[k] + 1]]]

\* lines 66-71
Fallback(m, T) ==
    remove_unreferenced_vertices(FallbackTruncate(FallbackSample(m, T), T))

\* ---- Normalizer (lines 73-82) -------------------------------------------
\* candidate values of mesh.center_mass (a surface integral computed by the
\* mesh library), in units of 1/den
CenterMassCandidates == {<<x, MaxShift - x, 0>> : x \in 0..MaxShift}

\* line 74: mesh.vertices -= mesh.center_mass
Translate(m, c) ==
    [m EXCEPT !.vertices =
        [i \in 1..Len(m.vertices) |->
            <<m.vertices[i][1] - c[1], m.vertices[i][2] - c[2],
              m.vertices[i][3] - c[3]>>]]

\* lines 77-78: bounds[1] - bounds[0], per axis, as numerators over m.den
extents(m) ==
    [k \in 1..3 |->
        SetMax({m.vertices[i][k] : i \in 1..Len(m.vertices)})
            - SetMin({m.vertices[i][k] : i \in 1..Len(m.vertices)})]

\* line 79: float(np.max(extents)), as a numerator over m.den
longest(m) == SetMax({extents(m)[k] : k \in 1..3})

\* mutant: the division by the longest extent left out
ScaleFactorNoDen(S, m) == [num |-> S, den |-> 1]

\* line 81: scale = args.target_size / longest, as a fraction
ScaleFactor(S, m) == [num |-> S * m.den, den |-> longest(m)]

\* line 82: mesh.apply_scale(scale) multiplies every coordinate by scale
apply_scale(m, scale) ==
    [m EXCEPT !.vertices =
                 [i \in 1..Len(m.vertices) |->
                     <<m.vertices[i][1] * scale.num, m.vertices[i][2] * scale.num,
                       m.vertices[i][3] * scale.num>>],
              !.den = m.den * scale.den]

\* lines 76-82 on a mesh that has vertices
Rescaled(m, S) ==
    IF longest(m) > 0 THEN apply_scale(m, ScaleFactor(S, m)) ELSE m

\* ---- Scene Serializer (lines 84-104) ------------------------------------
\* f"{v:.4f}": the value num/den rounded to PointPrecision decimals (ties to
\* even), returned as a count of 10^-PointPrecision units
format_value(num, den) ==
    LET scaled == num * Pow10(PointPrecision)
        q      == scaled \div den
        r      == scaled % den
    IN  IF 2 * r < den THEN q
        ELSE IF 2 * r > den THEN q + 1
        ELSE IF q % 2 = 0 THEN q ELSE q + 1

\* lines 87-91
format_points(m) ==
    [i \in 1..Len(m.vertices) |->
        <<format_value(m.vertices[i][1], m.den), format_value(m.vertices[i][2], m.den),
          format_value(m.vertices[i][3], m.den)>>]

\* line 93
FaceCounts(m) == [k \in 1..Len(m.faces) |-> FaceVertexCount]

\* line 94: every face's three indices, in face order and winding order
FlatIndices(m) ==
    [j \in 1..(3 * Len(m.faces)) |-> m.faces[((j - 1) \div 3) + 1][((j - 1) % 3) + 1]]

NoLists == [face_counts |-> <<>>, indices |-> <<>>, built |-> FALSE]

NoDocument ==
    [points |-> <<>>, face_counts |-> <<>>, indices |-> <<>>, color |-> "",
     produced |-> FALSE]

\* lines 99-104: USD_TEMPLATE.format(points, face_counts, indices, color)
FormatTemplate(m, l, color) ==
    [points |-> format_points(m), face_counts |-> l.face_counts,
     indices |-> l.indices, color |-> color, produced |-> TRUE]

\* ---- Archive Packager (lines 96-107) ------------------------------------
AbsentFile == [exists |-> FALSE, complete |-> FALSE, entries |-> <<>>]

StaleDocument == [NoDocument EXCEPT !.color = "stale", !.produced = TRUE]

StaleArchives ==
    {[exists |-> TRUE, complete |-> TRUE,
      entries |-> <<[name |-> ENTRY_NAME, data |-> StaleDocument],
                    [name |-> "old.png", data |-> StaleDocument]>>]}

\* line 97: os.remove(output_path)
os_remove(file) == AbsentFile

\* line 106: ZipFile(output_path, "w") creates or truncates the file; it is
\* not a complete archive until the central directory is written on close
ZipFile_w(file) == [exists |-> TRUE, complete |-> FALSE, entries |-> <<>>]

\* mutant: the entry written twice
writestr_dup(entries, name, data) ==
    entries \o <<[name |-> name, data |-> data], [name |-> name, data |-> data]>>

\* line 107: archive.writestr(name, data)
writestr(entries, name, data) == Append(entries, [name |-> name, data |-> data])

\* leaving the with block: ZipFile.close() commits the entries written
ZipFile_close(file, entries) ==
    [exists |-> TRUE, complete |-> TRUE, entries |-> entries]

\* ---- the script, top to bottom ------------------------------------------
Init ==
    /\ pc = "check_input"
    /\ args \in [target_faces : 0..MaxTargetFaces,
                 center       : BOOLEAN,
                 target_size  : 0..MaxTargetSize,
                 color        : {DefaultColor}]
    /\ input_exists \in BOOLEAN
    /\ initial_output \in {AbsentFile} \cup StaleArchives
    /\ output = initial_output
    /\ loaded = [kind |-> "Trimesh", geometry |-> <<EmptyMesh>>]
    /\ mesh = EmptyMesh
    /\ path = "none"
    /\ primary_calls = 0
    /\ failure = "none"
    /\ lists = NoLists
    /\ usda_content = NoDocument
    /\ archive = <<>>
    /\ exit_status = "running"
    /\ abort_reason = "none"

\* raise SystemExit(...) or an uncaught exception: the process ends, non-zero
Abort(reason) ==
    /\ pc' = "aborted"
    /\ exit_status' = "error"
    /\ abort_reason' = reason

\* lines 51-52
CheckInput ==
    /\ pc = "check_input"
    /\ IF input_exists
       THEN pc' = "load" /\ UNCHANGED <<exit_status, abort_reason>>
       ELSE Abort("InputNotFound")
    /\ UNCHANGED <<args, input_exists, initial_output, output, loaded, mesh, path,
                   primary_calls, failure, lists, usda_content, archive>>

\* lines 54-56
Load ==
    /\ pc = "load"
    /\ \E obj \in LoadResults :
          /\ loaded' = obj
          /\ IF is_empty(obj)
             THEN Abort("EmptyMesh") /\ UNCHANGED mesh
             ELSE /\ pc' = "flatten"
                  /\ mesh' = IF obj.kind = "Trimesh" THEN obj.geometry[1] ELSE mesh
                  /\ UNCHANGED <<exit_status, abort_reason>>
    /\ UNCHANGED <<args, input_exists, initial_output, output, path, primary_calls,
                   failure, lists, usda_content, archive>>

\* lines 58-59
Flatten ==
    /\ pc = "flatten"
    /\ mesh' = IF loaded.kind = "Scene" THEN concatenate(loaded.geometry) ELSE mesh
    /\ pc' = "simplify"
    /\ UNCHANGED <<args, input_exists, initial_output, output, loaded, path,
                   primary_calls, failure, lists, usda_content, archive,
                   exit_status, abort_reason>>

\* line 61, condition false
SimplifySkip ==
    /\ pc = "simplify"
    /\ ~NeedsSimplify(args.target_faces, Len(mesh.faces))
    /\ path' = "noop"
    /\ pc' = "center"
    /\ UNCHANGED <<args, input_exists, initial_output, output, loaded, mesh,
                   primary_calls, failure, lists, usda_content, archive,
                   exit_status, abort_reason>>

\* lines 61-63, the decimation call returns
PrimarySucceeds ==
    /\ pc = "simplify"
    /\ NeedsSimplify(args.target_faces, Len(mesh.faces))
    /\ mesh' \in PrimaryOutcomes(mesh, args.target_faces)
    /\ primary_calls' = primary_calls + 1
    /\ path' = "primary"
    /\ pc' = "center"
    /\ UNCHANGED <<args, input_exists, initial_output, output, loaded, failure,
                   lists, usda_content, archive, exit_status, abort_reason>>

\* lines 61-65, the decimation call raises
PrimaryFails ==
    /\ pc = "simplify"
    /\ NeedsSimplify(args.target_faces, Len(mesh.faces))
    /\ primary_calls' = primary_calls + 1
    /\ \E exc \in FailureKinds :
          /\ failure' = exc
          /\ IF Caught(exc)
             THEN pc' = "fallback" /\ UNCHANGED <<exit_status, abort_reason>>
             ELSE Abort("SimplificationFailure")
    /\ UNCHANGED <<args, input_exists, initial_output, output, loaded, mesh, path,
                   lists, usda_content, archive>>

\* lines 66-71
RunFallback ==
    /\ pc = "fallback"
    /\ mesh' = Fallback(mesh, args.target_faces)
    /\ path' = "fallback"
    /\ pc' = "center"
    /\ UNCHANGED <<args, input_exists, initial_output, output, loaded,
                   primary_calls, failure, lists, usda_content, archive,
                   exit_status, abort_reason>>

\* lines 73-74
Center ==
    /\ pc = "center"
    /\ IF args.center
       THEN \E c \in CenterMassCandidates : mesh' = Translate(mesh, c)
       ELSE UNCHANGED mesh
    /\ pc' = "rescale"
    /\ UNCHANGED <<args, input_exists, initial_output, output, loaded, path,
                   primary_calls, failure, lists, usda_content, archive,
                   exit_status, abort_reason>>

\* lines 76-82; mesh.bounds of a mesh without vertices is None, and line 78
\* then raises TypeError
Rescale ==
    /\ pc = "rescale"
    /\ IF args.target_size = 0
       THEN pc' = "serialize" /\ UNCHANGED <<mesh, exit_status, abort_reason>>
       ELSE IF Len(mesh.vertices) = 0
       THEN Abort("TypeError") /\ UNCHANGED mesh
       ELSE /\ mesh' = Rescaled(mesh, args.target_size)
            /\ pc' = "serialize"
            /\ UNCHANGED <<exit_status, abort_reason>>
    /\ UNCHANGED <<args, input_exists, initial_output, output, loaded, path,
                   primary_calls, failure, lists, usda_content, archive>>

\* lines 84-95
BuildLists ==
    /\ pc = "serialize"
    /\ lists' = [face_counts |-> FaceCounts(mesh), indices |-> FlatIndices(mesh),
                 built |-> TRUE]
    /\ pc' = "remove"
    /\ UNCHANGED <<args, input_exists, initial_output, output, loaded, mesh, path,
                   primary_calls, failure, usda_content, archive, exit_status,
                   abort_reason>>

\* lines 96-97
RemoveExisting ==
    /\ pc = "remove"
    /\ output' = IF output.exists THEN os_remove(output) ELSE output
    /\ pc' = "format"
    /\ UNCHANGED <<args, input_exists, initial_output, loaded, mesh, path,
                   primary_calls, failure, lists, usda_content, archive,
                   exit_status, abort_reason>>

\* line 97, os.remove raises OSError (the file cannot be deleted)
RemoveFails ==
    /\ pc = "remove"
    /\ output.exists
    /\ Abort("OutputWriteError")
    /\ UNCHANGED <<args, input_exists, initial_output, output, loaded, mesh, path,
                   primary_calls, failure, lists, usda_content, archive>>

\* lines 99-104
FormatDocument ==
    /\ pc = "format"
    /\ usda_content' = FormatTemplate(mesh, lists, args.color)
    /\ pc' = "zip_open"
    /\ UNCHANGED <<args, input_exists, initial_output, output, loaded, mesh, path,
                   primary_calls, failure, lists, archive, exit_status,
                   abort_reason>>

\* line 106
ZipOpen ==
    /\ pc = "zip_open"
    /\ output' = ZipFile_w(output)
    /\ archive' = ZipFile_w(output).entries
    /\ pc' = "zip_write"
    /\ UNCHANGED <<args, input_exists, initial_output, loaded, mesh, path,
                   primary_calls, failure, lists, usda_content, exit_status,
                   abort_reason>>

\* line 106, the destination cannot be created
ZipOpenFails ==
    /\ pc = "zip_open"
    /\ Abort("OutputWriteError")
    /\ UNCHANGED <<args, input_exists, initial_output, output, loaded, mesh, path,
                   primary_calls, failure, lists, usda_content, archive>>

\* line 107
ZipWrite ==
    /\ pc = "zip_write"
    /\ archive' = writestr(archive, ENTRY_NAME, usda_content)
    /\ pc' = "zip_close"
    /\ UNCHANGED <<args, input_exists, initial_output, output, loaded, mesh, path,
                   primary_calls, failure, lists, usda_content, exit_status,
                   abort_reason>>

\* line 107, the write is interrupted: the file opened on line 106 stays
ZipWriteFails ==
    /\ pc = "zip_write"
    /\ Abort("OutputWriteError")
    /\ UNCHANGED <<args, input_exists, initial_output, output, loaded, mesh, path,
                   primary_calls, failure, lists, usda_content, archive>>

\* end of the with block and line 109
ZipClose ==
    /\ pc = "zip_close"
    /\ output' = ZipFile_close(output, archive)
    /\ pc' = "done"
    /\ exit_status' = "ok"
    /\ UNCHANGED <<args, input_exists, initial_output, loaded, mesh, path,
                   primary_calls, failure, lists, usda_content, archive,
                   abort_reason>>

Next ==
    \/ CheckInput
    \/ Load
    \/ Flatten
    \/ SimplifySkip
    \/ PrimarySucceeds
    \/ PrimaryFails
    \/ RunFallback
    \/ Center
    \/ Rescale
    \/ BuildLists
    \/ RemoveExisting
    \/ RemoveFails
    \/ FormatDocument
    \/ ZipOpen
    \/ ZipOpenFails
    \/ ZipWrite
    \/ ZipWriteFails
    \/ ZipClose

Spec == Init /\ [][Next]_vars

\* ---- claims --------------------------------------------------------------
\* positions of the script after the Loader (lines 51-59) has been left
PastLoader ==
    \/ pc \in {"simplify", "fallback", "center", "rescale", "serialize", "remove",
               "format", "zip_open", "zip_write", "zip_close", "done"}
    \/ pc = "aborted" /\ abort_reason \notin {"InputNotFound", "EmptyMesh"}

\* positions of the script after the Simplifier (lines 61-71) has been left
PastSimplifier ==
    \/ pc \in {"center", "rescale", "serialize", "remove", "format", "zip_open",
               "zip_write", "zip_close", "done"}
    \/ pc = "aborted" /\ abort_reason \in {"TypeError", "OutputWriteError"}

\* the three corner points of face number k (1-based) of mesh m
FaceCorners(m, k) ==
    <<m.vertices[m.faces[k][1] + 1], m.vertices[m.faces[k][2] + 1],
      m.vertices[m.faces[k][3] + 1]>>

Min2(a, b) == IF a <= b THEN a ELSE b

CeilDiv(a, b) == (a + b - 1) \div b

\* the largest bounding-box edge of m, as a numerator over m.den
LongestEdge(m) ==
    LET lo(k) == SetMin({m.vertices[i][k] : i \in 1..Len(m.vertices)})
        hi(k) == SetMax({m.vertices[i][k] : i \in 1..Len(m.vertices)})
    IN  SetMax({hi(k) - lo(k) : k \in 1..3})

\* C1: once the primary decimation call has failed (with any failure), the
\* fallback is taken, the primary call is never made again, the fallback
\* leaves a non-empty mesh, and the only abort still possible is a write
\* error of the Packager: the failure itself never aborts the run.
C1_FailureRecovered ==
    failure # "none" =>
        /\ args.target_faces >= 1
        /\ primary_calls = 1
        /\ pc # "simplify"
        /\ pc = "fallback" \/ path = "fallback"
        /\ path = "fallback" => Len(mesh.faces) >= 1 /\ Len(mesh.vertices) >= 1
        /\ abort_reason \in {"none", "OutputWriteError"}
        /\ pc = "done" => exit_status = "ok"

C1_Witness ==
    /\ failure = "KeyboardInterrupt"
    /\ path = "fallback"
    /\ pc = "done"
    /\ exit_status = "ok"

\* C2: when the fallback path was exercised (F > T >= 1), the mesh leaving
\* the Simplifier has at most T faces.
C2_FaceCountConvergence ==
    path = "fallback" =>
        /\ Len(Flattened(loaded).faces) > args.target_faces
        /\ args.target_faces >= 1
        /\ Len(mesh.faces) <= args.target_faces

\* a fallback run in which striding alone left more than T faces
C2_Witness ==
    /\ path = "fallback"
    /\ pc = "center"
    /\ LET F == Len(Flattened(loaded).faces)
           T == args.target_faces
       IN  CeilDiv(F, Max2(1, F \div T)) > T

\* C3: with T zero or F <= T the Simplifier leaves vertices and faces as they
\* were and calls neither the primary decimation nor the fallback; the
\* primary call and the fallback happen only when T is nonzero and F > T.
C3_NoOpBelowBudget ==
    LET m0 == Flattened(loaded)
        T  == args.target_faces
        F  == Len(m0.faces)
    IN  /\ (PastSimplifier /\ (T = 0 \/ F <= T)) =>
              /\ path = "noop"
              /\ primary_calls = 0
              /\ failure = "none"
              /\ mesh.faces = m0.faces
              /\ pc = "center" => mesh = m0
        /\ (primary_calls > 0 \/ pc = "fallback" \/ path \in {"primary", "fallback"}) =>
              T # 0 /\ F > T

C3_Witness ==
    /\ pc = "center"
    /\ path = "noop"
    /\ args.target_faces >= 1
    /\ Len(mesh.faces) = args.target_faces

\* C4: after the Simplifier and after the Normalizer every vertex index of
\* every face is below the vertex count, and the serialized index list only
\* refers to points of the serialized point list.
C4_IndexValidity ==
    /\ PastSimplifier =>
          \A k \in 1..Len(mesh.faces) : \A j \in 1..3 :
              0 <= mesh.faces[k][j] /\ mesh.faces[k][j] < Len(mesh.vertices)
    /\ usda_content.produced =>
          /\ Len(usda_content.indices) = 3 * Len(usda_content.face_counts)
          /\ \A j \in 1..Len(usda_content.indices) :
                0 <= usda_content.indices[j]
                    /\ usda_content.indices[j] < Len(usda_content.points)

\* a finished run whose fallback dropped vertices and re-indexed the faces
C4_Witness ==
    /\ pc = "done"
    /\ path = "fallback"
    /\ Len(mesh.vertices) < Len(Flattened(loaded).vertices)
    /\ mesh.faces[1] # Flattened(loaded).faces[1]
    /\ Len(usda_content.indices) >= 3

\* C5: a failed archive write aborts the run and leaves no partial or
\* corrupt archive at the output path.
C5_NoPartialArchive ==
    abort_reason = "OutputWriteError" =>
        /\ exit_status = "error"
        /\ ~(output.exists /\ ~output.complete)

\* C6: the run is past the Loader only if the input exists and the loaded
\* mesh, after a scene has been flattened, has a vertex and a face; a run
\* stopped by the Loader has a non-zero status and has not touched the output.
C6_LoaderGate ==
    /\ PastLoader =>
          /\ input_exists
          /\ Len(Flattened(loaded).vertices) >= 1
          /\ Len(Flattened(loaded).faces) >= 1
    /\ abort_reason \in {"InputNotFound", "EmptyMesh"} =>
          /\ exit_status = "error"
          /\ output = initial_output
          /\ path = "none" /\ ~lists.built /\ ~usda_content.produced

\* C7: after a successful conversion the output file is a complete archive
\* with exactly one entry, default.usda, holding this run's scene document,
\* whatever the output path held before.
C7_SingleFreshEntry ==
    pc = "done" =>
        /\ exit_status = "ok"
        /\ output.exists /\ output.complete
        /\ Len(output.entries) = 1
        /\ output.entries[1].name = "default.usda"
        /\ usda_content.produced
        /\ output.entries[1].data = usda_content

\* a successful run over an archive that held two stale entries
C7_Witness ==
    /\ pc = "done"
    /\ Len(initial_output.entries) = 2
    /\ Len(usda_content.points) >= 3

\* C8: no Packager action, the removal of a pre-existing output file
\* included, happens before the Serializer has produced the scene document.
C8_PackagerAfterSerializer ==
    output # initial_output => usda_content.produced

\* C9: rescaling with nonzero S leaves the faces alone; with a longest extent
\* > 0 it multiplies every coordinate by S / longest and the longest edge
\* becomes exactly S; with a longest extent of 0 the mesh is unchanged.
C9_Rescale ==
    [][(pc = "rescale" /\ pc' = "serialize" /\ args.target_size # 0) =>
          LET L == LongestEdge(mesh)
              S == args.target_size
          IN  /\ mesh'.faces = mesh.faces
              /\ Len(mesh'.vertices) = Len(mesh.vertices)
              /\ L = 0 => mesh' = mesh
              /\ L > 0 =>
                    /\ mesh'.den > 0
                    /\ \A i \in 1..Len(mesh.vertices) : \A k \in 1..3 :
                          mesh'.vertices[i][k] * L * mesh.den
                              = mesh.vertices[i][k] * S * mesh.den * mesh'.den
                    /\ LongestEdge(mesh') = S * mesh'.den]_vars

\* a mesh that was scaled by a factor that is not a whole number
C9_Witness ==
    /\ pc = "serialize"
    /\ args.target_size # 0
    /\ mesh.den > args.target_size
    /\ LongestEdge(mesh) = args.target_size * mesh.den

\* C10: the fallback keeps exactly the original faces at positions 0, step,
\* 2*step, ... with step = max(1, floor(F / T)), in that order, cut to the
\* first T of them: min(T, ceil(F / step)) >= 1 faces.
C10_FallbackFaces ==
    (path = "fallback" /\ pc = "center") =>
        LET m0   == Flattened(loaded)
            F    == Len(m0.faces)
            T    == args.target_faces
            step == Max2(1, F \div T)
            n    == Min2(T, CeilDiv(F, step))
        IN  /\ n >= 1
            /\ Len(mesh.faces) = n
            /\ \A i \in 1..n :
                  FaceCorners(mesh, i) = FaceCorners(m0, (i - 1) * step + 1)

\* a fallback with a stride above 1 that kept more than one face
C10_Witness ==
    /\ path = "fallback"
    /\ pc = "center"
    /\ Len(mesh.faces) >= 2
    /\ Len(Flattened(loaded).faces) \div args.target_faces >= 2
    /\ FaceCorners(mesh, 1) # FaceCorners(mesh, 2)

====
